---- MODULE Spec2Model ----
(***************************************************************************)
(* Ephemeris forces of reboundx (ephemeris_forces.c): the DE430 reader     *)
(* (jpl_init, jpl_calc, jpl_work), the body and asteroid queries (ephem,   *)
(* ast_ephem) and the force routine rebx_ephemeris_forces.                 *)
(*                                                                         *)
(* Numbers.  A C double is modelled as a record:                           *)
(*     [k |-> "fin", v |-> n]   the finite value n / Scale (fixed point),  *)
(*     [k |-> "inf", v |-> s]   the infinity of sign s (1 or -1),          *)
(*     [k |-> "nan", v |-> 0]   a NaN.                                     *)
(* Every operation rounds toward zero to a multiple of 1/Scale, overflows  *)
(* to an infinity beyond MaxFin / Scale and follows IEEE 754 on the        *)
(* special values (x/0, inf - inf, 0 * inf, comparisons with a NaN).  The  *)
(* sign of a zero is not kept.                                             *)
(***************************************************************************)
EXTENDS Integers, Sequences, FiniteSets, TLC

\* Resolution of the modelled double: machine epsilon is 1 / Scale.
Scale == 4
\* Largest finite magnitude of the modelled double, in units of 1 / Scale.
MaxFin == 400000000
\* A product of two raw values beyond MaxRaw is beyond MaxFin once rescaled.
MaxRaw == MaxFin * Scale + (Scale - 1)

NULL == [k |-> "null", v |-> 0]

Fin(n) == [k |-> "fin", v |-> n]
Inf(s) == [k |-> "inf", v |-> s]
NaN == [k |-> "nan", v |-> 0]
\* The double nearest to the integer n  (1.0 is D(1), 0.0 is D(0)).
D(n) == Fin(n * Scale)
Zero == Fin(0)

IsFin(a) == a.k = "fin"
IsInf(a) == a.k = "inf"
IsNaN(a) == a.k = "nan"

\* The element of the one-element set S: names an intermediate result that
\* the code computes once and reads many times.
Only(S) == CHOOSE x \in S : TRUE

Abs(n) == IF n < 0 THEN -n ELSE n
Sgn(n) == IF n < 0 THEN -1 ELSE IF n > 0 THEN 1 ELSE 0
\* Integer quotient rounded toward zero (d > 0).
TDiv(n, d) == IF n >= 0 THEN n \div d ELSE -((-n) \div d)
\* A result that left the finite range is an infinity.
Rnd(n) == IF Abs(n) > MaxFin THEN Inf(Sgn(n)) ELSE Fin(n)

FNeg(a) ==
    CASE IsFin(a) -> Fin(-a.v)
      [] IsInf(a) -> Inf(-a.v)
      [] OTHER    -> NaN

FAdd(a, b) ==
    CASE IsNaN(a) \/ IsNaN(b) -> NaN
      [] IsInf(a) /\ IsInf(b) -> IF a.v = b.v THEN a ELSE NaN
      [] IsInf(a)             -> a
      [] IsInf(b)             -> b
      [] OTHER                -> Rnd(a.v + b.v)

FSub(a, b) == FAdd(a, FNeg(b))

FMul(a, b) ==
    CASE IsNaN(a) \/ IsNaN(b) -> NaN
      [] IsInf(a) \/ IsInf(b) ->
            IF (IsFin(a) /\ a.v = 0) \/ (IsFin(b) /\ b.v = 0)
            THEN NaN
            ELSE Inf(Sgn(a.v) * Sgn(b.v))
      [] a.v = 0 \/ b.v = 0   -> Zero
      [] Abs(a.v) > MaxRaw \div Abs(b.v) -> Inf(Sgn(a.v) * Sgn(b.v))
      [] OTHER                -> Rnd(TDiv(a.v * b.v, Scale))

FDiv(a, b) ==
    CASE IsNaN(a) \/ IsNaN(b) -> NaN
      [] IsInf(a) /\ IsInf(b) -> NaN
      [] IsInf(a)             -> Inf(a.v * (IF b.v < 0 THEN -1 ELSE 1))
      [] IsInf(b)             -> Zero
      [] b.v = 0              -> IF a.v = 0 THEN NaN ELSE Inf(Sgn(a.v))
      [] OTHER                -> Rnd(Sgn(b.v) * TDiv(a.v * Scale, Abs(b.v)))

\* a < b in C: false as soon as one side is a NaN.
FLt(a, b) ==
    CASE IsNaN(a) \/ IsNaN(b) -> FALSE
      [] IsInf(a) /\ IsInf(b) -> a.v < b.v
      [] IsInf(a)             -> a.v < 0
      [] IsInf(b)             -> b.v > 0
      [] OTHER                -> a.v < b.v

FGt(a, b) == FLt(b, a)

\* Largest r with r * r <= n, by bisection on lo..hi (lo * lo <= n < hi * hi).
RECURSIVE ISqrtIn(_, _, _)
ISqrtIn(n, lo, hi) ==
    IF hi - lo <= 1 THEN lo
    ELSE LET mid == (lo + hi) \div 2
         IN  IF mid * mid <= n THEN ISqrtIn(n, mid, hi) ELSE ISqrtIn(n, lo, mid)

ISqrt(n) == ISqrtIn(n, 0, 46341)

\* sqrt(a): sqrt(n / Scale) = sqrt(n * Scale) / Scale.
FSqrt(a) ==
    CASE IsNaN(a) -> NaN
      [] IsInf(a) -> IF a.v > 0 THEN a ELSE NaN
      [] a.v < 0  -> NaN
      [] OTHER    -> Fin(ISqrt(a.v * Scale))

\* fmod(a, b) for finite a and b # 0: the remainder has the sign of a.
FMod(a, b) ==
    CASE IsNaN(a) \/ IsNaN(b) \/ IsInf(a) -> NaN
      [] IsInf(b)             -> a
      [] b.v = 0              -> NaN
      [] OTHER                -> Fin(Sgn(a.v) * (Abs(a.v) % Abs(b.v)))

\* (int) a  and (u_int32_t) a  of a finite a: the fraction is dropped.
FToInt(a) == TDiv(a.v, Scale)


(***************************************************************************)
(* Vectors: double[3] is a 3-tuple of modelled doubles.                    *)
(***************************************************************************)
Vec(a, b, c) == <<a, b, c>>
\* vecpos_nul
VecNul == <<Zero, Zero, Zero>>
\* vecpos_off: u += v * w
vecpos_off(u, v, w) == [p \in 1..3 |-> FAdd(u[p], FMul(v[p], w))]
\* vecpos_div: u /= w
vecpos_div(u, w) == [p \in 1..3 |-> FDiv(u[p], w)]

(***************************************************************************)
(* Body codes of the public interface (PLAN_x) and slots of the file       *)
(* (JPL_x), numbered as the enums number them.                             *)
(***************************************************************************)
PLAN_BAR == 0
PLAN_SOL == 1
PLAN_EAR == 2
PLAN_EMB == 3
PLAN_LUN == 4
PLAN_MER == 5
PLAN_VEN == 6
PLAN_MAR == 7
PLAN_JUP == 8
PLAN_SAT == 9
PLAN_URA == 10
PLAN_NEP == 11
PLAN_PLU == 12
NUM_TEST == 13

JPL_MER == 0
JPL_VEN == 1
JPL_EMB == 2
JPL_MAR == 3
JPL_JUP == 4
JPL_SAT == 5
JPL_URA == 6
JPL_NEP == 7
JPL_PLU == 8
JPL_LUN == 9
JPL_SUN == 10
JPL_NUT == 11
JPL_LIB == 12
JPL_MAN == 13
JPL_TDB == 14
NUM_JPL == 15

\* Seconds per day of the model's time unit (86400.0 in the source: the
\* modelled double has too few digits for 1/86400, so the day is rescaled).
SecPerDay == 2
\* Byte offset of the header in the file (0x0A5C).
HeaderOffset == 2652
\* sizeof(double)
SizeofDouble == 8

(***************************************************************************)
(* The ephemeris file on disk.  A file is a record: what open, fstat,      *)
(* lseek and mmap answer for it, its size in bytes, its header fields and  *)
(* its doubles.  Slot p of a record holds ncf[p] * niv[p] * ncm[p]         *)
(* coefficients from the 1-based offset off1[p]; two time stamps lead      *)
(* every record, and two reserved records lead the file.                   *)
(***************************************************************************)
\* Number of components per slot, as jpl_init assumes them.
Ncm(p) == IF p = JPL_NUT THEN 2 ELSE IF p = JPL_TDB THEN 1 ELSE 3

\* Coefficients per component and sub-intervals of the file's slots
\* (slots JPL_MAN and JPL_TDB are empty, as in DE430).
FileNcf == [p \in 0..(NUM_JPL - 1) |->
              IF p = JPL_MER THEN 3
              ELSE IF p \in {JPL_MAN, JPL_TDB} THEN 0
              ELSE IF p \in {JPL_NUT, JPL_LIB} THEN 1 ELSE 2]
FileNiv == [p \in 0..(NUM_JPL - 1) |->
              IF p \in {JPL_MER, JPL_LUN} THEN 2
              ELSE IF p \in {JPL_MAN, JPL_TDB} THEN 0 ELSE 1]

RECURSIVE SlotDoubles(_)
\* Doubles taken by the slots before slot p.
SlotDoubles(p) ==
    IF p = 0 THEN 0
    ELSE SlotDoubles(p - 1) + FileNcf[p - 1] * FileNiv[p - 1] * Ncm(p - 1)

\* 1-based offsets as the file stores them (the first coefficient is 3).
FileOff1 == [p \in 0..(NUM_JPL - 1) |-> 3 + SlotDoubles(p)]

\* Bytes of one record of the file.
FileRecBytes == SizeofDouble * (2 + SlotDoubles(NUM_JPL))

FileHeader ==
    [beg |-> D(10), end |-> D(18), inc |-> D(4), num |-> 572,
     cau |-> D(2), cem |-> D(3), ver |-> 430,
     off |-> FileOff1, ncf |-> FileNcf, niv |-> FileNiv]

\* The data records of the file: one per inc days from beg to end.
FileDataRecords ==
    FToInt(FDiv(FSub(FileHeader.end, FileHeader.beg), FileHeader.inc))

\* The double at index k of the file (byte 8 k): the coefficient data.
FileDouble(k) == Fin(((k * 37) % 23) - 11)

GoodFile ==
    [openOk |-> TRUE, fstatOk |-> TRUE, seekOk |-> TRUE, mmapOk |-> TRUE,
     size |-> (2 + FileDataRecords) * FileRecBytes, hdr |-> FileHeader]

\* The files a process may find: the good file; no file (open fails); a file
\* whose fstat fails; one that cannot seek (a FIFO); a good file whose
\* mapping is refused (ENOMEM, ENODEV).
JplFiles ==
    [ok       |-> GoodFile,
     missing  |-> [GoodFile EXCEPT !.openOk = FALSE],
     nostat   |-> [GoodFile EXCEPT !.fstatOk = FALSE],
     noseek   |-> [GoodFile EXCEPT !.seekOk = FALSE],
     nomap    |-> [GoodFile EXCEPT !.mmapOk = FALSE]]

JplFileNames == {"ok", "missing", "nostat", "noseek", "nomap"}

\* mmap(NULL, len, PROT_READ, MAP_SHARED, fd, 0): the mapping, or MAP_FAILED
\* ((void *) -1) when it is refused or the length is 0.  Never NULL.
Mmap(f) == IF f.mmapOk /\ f.size > 0 THEN "mapped" ELSE "MAP_FAILED"

\* lseek(fd, off, whence) < 0
LseekFails(f, pos) == ~f.seekOk \/ pos < 0

\* File position after the header reads up to off[12]/ncf[12]/niv[12]:
\* 3 doubles, an int, 2 doubles, 12 triples of ints, ver, one triple.
PosAfterHeader(f) == HeaderOffset + 3 * 8 + 4 + 2 * 8 + 12 * 12 + 4 + 12

RECURSIVE RecBytes(_, _)
\* jpl->rec after the loop over the first p slots.
RecBytes(h, p) ==
    IF p = 0 THEN SizeofDouble * 2
    ELSE RecBytes(h, p - 1)
         + SizeofDouble * h.ncf[p - 1] * h.niv[p - 1] * Ncm(p - 1)

\* The handle jpl_init builds once the file is open and positioned.
JplHandle(f) ==
    [k   |-> "jpl",
     beg |-> f.hdr.beg, end |-> f.hdr.end, inc |-> f.hdr.inc,
     cau |-> f.hdr.cau, cem |-> f.hdr.cem,
     num |-> f.hdr.num, ver |-> f.hdr.ver,
     off |-> [p \in 0..(NUM_JPL - 1) |-> f.hdr.off[p] - 1],
     ncf |-> f.hdr.ncf, niv |-> f.hdr.niv,
     ncm |-> [p \in 0..(NUM_JPL - 1) |-> Ncm(p)],
     len |-> f.size,
     rec |-> RecBytes(f.hdr, NUM_JPL),
     map |-> Mmap(f)]

\* jpl_init: NULL, or the handle.
jpl_init(f) ==
    IF ~f.openOk THEN NULL
    ELSE IF ~f.fstatOk THEN NULL
    ELSE IF LseekFails(f, HeaderOffset) THEN NULL
    ELSE IF LseekFails(f, PosAfterHeader(f) + 6 * (f.hdr.num - 400)) THEN NULL
    ELSE IF Mmap(f) = "NULL" THEN NULL
    ELSE JplHandle(f)

(***************************************************************************)
(* jpl_work: Chebyshev interpolation.  P is the index, in doubles from the *)
(* start of the file, of the slot's first coefficient in the record.       *)
(***************************************************************************)
RECURSIVE ChebT(_, _)
\* T[p]:  T[0] = 1, T[1] = t0, T[p] = 2 t0 T[p-1] - T[p-2]
ChebT(t0, p) ==
    IF p = 0 THEN D(1)
    ELSE IF p = 1 THEN t0
    ELSE FSub(FMul(FMul(D(2), t0), ChebT(t0, p - 1)), ChebT(t0, p - 2))

RECURSIVE ChebS(_, _)
\* S[p]:  S[0] = 0, S[1] = 1, S[p] = 2 t0 S[p-1] + 2 T[p-1] - S[p-2]
ChebS(t0, p) ==
    IF p = 0 THEN Zero
    ELSE IF p = 1 THEN D(1)
    ELSE FSub(FAdd(FMul(FMul(D(2), t0), ChebS(t0, p - 1)),
                   FMul(D(2), ChebT(t0, p - 1))),
              ChebS(t0, p - 2))

RECURSIVE SumU(_, _, _, _)
\* u[m] after the terms p = 0 .. ncf - 1 of  u[m] += T[p] * P[n+p]
SumU(P, n, t0, ncf) ==
    IF ncf = 0 THEN Zero
    ELSE FAdd(SumU(P, n, t0, ncf - 1),
              FMul(ChebT(t0, ncf - 1), FileDouble(P + n + ncf - 1)))

RECURSIVE SumV(_, _, _, _, _)
\* v[m] after the terms p = 0 .. ncf - 1 of  v[m] += S[p] * P[n+p] * c
SumV(P, n, t0, c, ncf) ==
    IF ncf = 0 THEN Zero
    ELSE FAdd(SumV(P, n, t0, c, ncf - 1),
              FMul(FMul(ChebS(t0, ncf - 1), FileDouble(P + n + ncf - 1)), c))

jpl_work(P, ncm, ncf, niv, t0, t1) ==
    LET t  == FMul(t0, D(niv))
        x  == FSub(FMul(D(2), FMod(t, D(1))), D(1))
        c  == FDiv(FDiv(D(niv * 2), t1), D(SecPerDay))
        b  == FToInt(t)
    IN  [u |-> [m \in 1..ncm |-> SumU(P, ncf * ((m - 1) + b * ncm), x, ncf)],
         v |-> [m \in 1..ncm |-> SumV(P, ncf * ((m - 1) + b * ncm), x, c, ncf)]]

\* jpl_work on slot p of the record that starts at double z.
Slot(pl, z, t, p) ==
    jpl_work(z + pl.off[p], pl.ncm[p], pl.ncf[p], pl.niv[p], t, pl.inc)

(***************************************************************************)
(* The resolvers _bar, _sun, ... selected by _help[n].                     *)
(***************************************************************************)
\* A variant of _bar that takes the sun for the barycenter.
_bar_AsSun(pl, z, t) == Slot(pl, z, t, JPL_SUN)

_bar(pl, z, t) == [u |-> VecNul, v |-> VecNul]

\* A variant of _ear that adds the lunar offset where the code subtracts it.
_ear_PlusSign(pl, z, t) ==
    LET emb == Slot(pl, z, t, JPL_EMB)
        lun == Slot(pl, z, t, JPL_LUN)
        w   == FDiv(D(1), FAdd(D(1), pl.cem))
    IN  [u |-> vecpos_off(emb.u, lun.u, w), v |-> vecpos_off(emb.v, lun.v, w)]

_ear(pl, z, t) ==
    LET emb == Slot(pl, z, t, JPL_EMB)
        lun == Slot(pl, z, t, JPL_LUN)
        w   == FDiv(D(-1), FAdd(D(1), pl.cem))
    IN  [u |-> vecpos_off(emb.u, lun.u, w), v |-> vecpos_off(emb.v, lun.v, w)]

_lun(pl, z, t) ==
    LET emb == Slot(pl, z, t, JPL_EMB)
        lun == Slot(pl, z, t, JPL_LUN)
        w   == FDiv(pl.cem, FAdd(D(1), pl.cem))
    IN  [u |-> vecpos_off(emb.u, lun.u, w), v |-> vecpos_off(emb.v, lun.v, w)]

_help(n, pl, z, t) ==
    CASE n = PLAN_BAR -> _bar(pl, z, t)
      [] n = PLAN_SOL -> Slot(pl, z, t, JPL_SUN)
      [] n = PLAN_EAR -> _ear(pl, z, t)
      [] n = PLAN_EMB -> Slot(pl, z, t, JPL_EMB)
      [] n = PLAN_LUN -> _lun(pl, z, t)
      [] n = PLAN_MER -> Slot(pl, z, t, JPL_MER)
      [] n = PLAN_VEN -> Slot(pl, z, t, JPL_VEN)
      [] n = PLAN_MAR -> Slot(pl, z, t, JPL_MAR)
      [] n = PLAN_JUP -> Slot(pl, z, t, JPL_JUP)
      [] n = PLAN_SAT -> Slot(pl, z, t, JPL_SAT)
      [] n = PLAN_URA -> Slot(pl, z, t, JPL_URA)
      [] n = PLAN_NEP -> Slot(pl, z, t, JPL_NEP)
      [] n = PLAN_PLU -> Slot(pl, z, t, JPL_PLU)

(***************************************************************************)
(* jpl_calc.  now is the caller's struct mpos_s [u, v, jde]; the result is *)
(* the return value and what now holds afterwards.                         *)
(***************************************************************************)
\* The epoch test of jpl_calc: not covered by this file.
NotCovered(pl, jde) ==
    FLt(jde, pl.beg) \/ FGt(jde, pl.end) \/ pl.map = "NULL"

\* blk = (u_int32_t)((jde - beg) / inc)
Blk(pl, jde) == FToInt(FDiv(FSub(jde, pl.beg), pl.inc))

\* Byte offset of the record jpl_calc selects: (blk + 2) * rec.
RecordOffset(pl, jde) == (Blk(pl, jde) + 2) * pl.rec

\* The record and the time inside it that jpl_calc selects: z is the index,
\* in doubles, of the record's start, t the fraction of the record elapsed.
RecordAt(pl, jde) ==
    [z |-> RecordOffset(pl, jde) \div SizeofDouble,
     t |-> FDiv(FMod(FSub(jde, pl.beg), pl.inc), pl.inc)]

\* pos - ref, with the epoch.
PosMinusRef(pos, ref, jde) ==
    [u   |-> [p \in 1..3 |-> FSub(pos.u[p], ref.u[p])],
     v   |-> [p \in 1..3 |-> FSub(pos.v[p], ref.v[p])],
     jde |-> jde]

jpl_calc(pl, now, jde, n, m) ==
    IF pl = NULL \/ now = NULL THEN [ret |-> -1, now |-> now]
    ELSE IF NotCovered(pl, jde) THEN [ret |-> -1, now |-> now]
    ELSE Only({ Only({ [ret |-> 0, now |-> PosMinusRef(pos, ref, jde)]
                       : pos \in {_help(n, pl, w.z, w.t)},
                         ref \in {_help(m, pl, w.z, w.t)} })
                : w \in {RecordAt(pl, jde)} })

\* jpl_calc passes its tests but its reads are undefined: the mapping is
\* MAP_FAILED, the record number is no number, or the record selected does
\* not lie inside the len bytes that were mapped.
CalcUndefined(pl, jde) ==
    /\ pl # NULL
    /\ ~NotCovered(pl, jde)
    /\ \/ pl.map # "mapped"
       \/ ~IsFin(FDiv(FSub(jde, pl.beg), pl.inc))
       \/ RecordOffset(pl, jde) + pl.rec > pl.len

(***************************************************************************)
(* ephem: the catalog of GM values and the branch for body i.              *)
(***************************************************************************)
\* M[11], in the model's units (sun, mercury, venus, earth, moon, mars,
\* jupiter, saturn, uranus, neptune, pluto; the order of magnitude of the
\* source's values is kept).
EphemM ==
    <<Fin(44), Fin(3), Fin(5), Fin(6), Fin(2), Fin(4),
      Fin(10), Fin(9), Fin(7), Fin(8), Fin(1)>>

\* The body code each branch i == 0 .. i == 10 of ephem hands to jpl_calc.
EphemBody ==
    <<PLAN_SOL, PLAN_MER, PLAN_VEN, PLAN_EAR, PLAN_LUN, PLAN_MAR,
      PLAN_JUP, PLAN_SAT, PLAN_URA, PLAN_NEP, PLAN_PLU>>

\* ephem has a branch for i.
EphemHasBranch(i) == i \in 0..10

\* What branch i assigns to *m, *x .. *vz, given what jpl_calc left in now.
EphemAssign(G, i, pl, now) ==
    [m |-> FDiv(EphemM[i + 1], G),
     u |-> vecpos_div(now.u, pl.cau),
     v |-> vecpos_div(now.v, FDiv(pl.cau, D(SecPerDay)))]

(***************************************************************************)
(* ast_ephem: the range test, the catalog, and the minor-body store.       *)
(***************************************************************************)
\* A variant of the test below without the upper limit.
AstOutOfRange_NoUpper(i) == i < 0

\* if (i < 0 || i > 15)
AstOutOfRange(i) == i < 0 \/ i > 15

\* M[16], in the model's units (ceres first, sylvia last).
AstM ==
    <<Fin(16), Fin(15), Fin(14), Fin(13), Fin(12), Fin(11), Fin(10), Fin(9),
      Fin(8), Fin(7), Fin(6), Fin(5), Fin(4), Fin(3), Fin(2), Fin(1)>>

\* spk_init: the handle of the opened kernel, or NULL.
spk_init(ok) == IF ok THEN [k |-> "spk", v |-> 1] ELSE NULL

\* spk_calc: the heliocentric position of asteroid i at jde.
spk_calc(handle, i, jde) ==
    [u |-> Vec(Fin(2 * (i % 5) - 4), FAdd(Fin(i - 8), FMul(Fin(1), jde)), Fin(3 - (i % 4)))]

\* What ast_ephem assigns to *m, *x, *y, *z.  M[i] outside the array reads
\* whatever lies next to it on the stack (junk).
AstAssign(G, i, handle, jde, junk) ==
    [m |-> FDiv(IF i + 1 \in DOMAIN AstM THEN AstM[i + 1] ELSE junk, G),
     u |-> spk_calc(handle, i, jde).u]

(***************************************************************************)
(* rebx_ephemeris_forces: the arithmetic of one particle.  A particle is   *)
(* [r, v, a, m]: position, velocity, acceleration (3-tuples) and mass.     *)
(***************************************************************************)
Dot(a, b) == FAdd(FAdd(FMul(a[1], b[1]), FMul(a[2], b[2])), FMul(a[3], b[3]))

\* G*m/(_r*_r*_r) for the particle at r and the body of mass m at u.
Prefac(G, m, r, u) ==
    LET d  == [k \in 1..3 |-> FSub(r[k], u[k])]
        _r == FSqrt(Dot(d, d))
    IN  FDiv(FMul(G, m), FMul(FMul(_r, _r), _r))

\* -prefac*dx, -prefac*dy, -prefac*dz: what the body at u adds at r.
NewtonTerm(G, m, r, u) ==
    [k \in 1..3 |-> FNeg(FMul(Prefac(G, m, r, u), FSub(r[k], u[k])))]

\* u + w, by components.
VecAdd(u, w) == [k \in 1..3 |-> FAdd(u[k], w[k])]

\* A variant of NewtonOne that assigns (=) where the code accumulates (-=).
NewtonOne_Overwrite(p, G, m, u) ==
    [p EXCEPT !.a = NewtonTerm(G, m, p.r, u)]

\* particles[j].ax -= prefac*dx; ... : the acceleration of p after the body.
NewtonOne(p, G, m, u) ==
    [p EXCEPT !.a = [k \in 1..3 |->
                       FSub(p.a[k], FMul(Prefac(G, m, p.r, u), FSub(p.r[k], u[k])))]]

\* A variant of the loop below that takes dx, dy, dz from particle 0 for
\* every j.
NewtonAccum_Coupled(parts, G, m, u) ==
    [j \in 1..Len(parts) |->
       [parts[j] EXCEPT !.a =
          NewtonOne([parts[j] EXCEPT !.r = parts[1].r], G, m, u).a]]

\* The inner loop over j: every particle takes the body's contribution.
NewtonAccum(parts, G, m, u) ==
    [j \in 1..Len(parts) |-> NewtonOne(parts[j], G, m, u)]

\* const int max_iterations = 10;  const int default_max_iterations = 10;
max_iterations == 10
default_max_iterations == 10

\* DBL_EPSILON is 1 / Scale.  a / b < DBL_EPSILON * DBL_EPSILON, with the
\* quotient compared exactly (the square of epsilon is below the model's
\* resolution, not below the double's).
LtEps2(a, b) ==
    LET q == FDiv(a, b)
    IN  CASE IsNaN(q) -> FALSE
          [] IsInf(q) -> q.v < 0
          [] IsInf(b) -> TRUE
          [] a.v = 0  -> TRUE
          [] Sgn(a.v) # Sgn(b.v) -> TRUE
          [] OTHER    -> Abs(a.v) <= (Abs(b.v) - 1) \div (Scale * Scale)

\* A variant of A that is not divided by C2.
GrA_NoC2(vi2, mu, ri, C2) ==
    FAdd(FMul(Fin(Scale \div 2), vi2), FDiv(FMul(D(3), mu), ri))

\* A = (0.5*vi2 + 3.*mu/ri)/C2
GrA(vi2, mu, ri, C2) ==
    FDiv(FAdd(FMul(Fin(Scale \div 2), vi2), FDiv(FMul(D(3), mu), ri)), C2)

\* One pass through the loop body from (vi, A): the new vi, vi2 and A, and
\* whether the test  (dvx*dvx + dvy*dvy + dvz*dvz)/vi2 < DBL_EPSILON*DBL_EPSILON
\* breaks the loop.
GrIter(pv, mu, ri, C2, vi, A) ==
    LET nv  == [k \in 1..3 |-> FDiv(pv[k], FSub(D(1), A))]
        nv2 == Dot(nv, nv)
        dv  == [k \in 1..3 |-> FSub(nv[k], vi[k])]
    IN  [vi |-> nv, vi2 |-> nv2, A |-> GrA(nv2, mu, ri, C2),
         brk |-> LtEps2(Dot(dv, dv), nv2)]

RECURSIVE GrLoop(_, _, _, _, _, _, _)
\* The loop  for(q=0; q<max_iterations; q++)  from the state (vi, A) at the
\* top of iteration q: the state when the loop is left.
GrLoop(pv, mu, ri, C2, vi, A, q) ==
    IF q >= max_iterations
    THEN [vi |-> vi, vi2 |-> Dot(vi, vi), A |-> A, q |-> q]
    ELSE CHOOSE r \in
           { IF s.brk
             THEN [vi |-> s.vi, vi2 |-> s.vi2, A |-> s.A, q |-> q]
             ELSE GrLoop(pv, mu, ri, C2, s.vi, s.A, q + 1)
             : s \in {GrIter(pv, mu, ri, C2, vi, A)} } : TRUE

\* The loop's result for particle p (a copy of particles[i]).
GrSolve(p, G, C2) ==
    LET mu == FMul(G, D(1))
        ri == FSqrt(Dot(p.r, p.r))
    IN  GrLoop(p.v, mu, ri, C2, p.v, GrA(Dot(p.v, p.v), mu, ri, C2), 0)

\* A variant of the test below whose cap is one more than the loop's.
GrWarns_CapMismatch(p, G, C2) ==
    GrSolve(p, G, C2).q = default_max_iterations + 1

\* if (q == default_max_iterations) reb_warning(...)
GrWarns(p, G, C2) == GrSolve(p, G, C2).q = default_max_iterations

\* B*(1.-A)*p.x - A*p.ax - D*vi.x, for the three components.
GrTerm(p, G, C2) ==
    LET mu    == FMul(G, D(1))
        ri    == FSqrt(Dot(p.r, p.r))
        s     == GrSolve(p, G, C2)
        ri3   == FMul(FMul(ri, ri), ri)
        B     == FDiv(FDiv(FMul(FSub(FDiv(mu, ri), FMul(Fin((3 * Scale) \div 2), s.vi2)), mu),
                           ri3), C2)
        rdotrdot == Dot(p.r, p.v)
        vidot == [k \in 1..3 |-> FAdd(p.a[k], FMul(B, p.r[k]))]
        vdotvdot == Dot(s.vi, vidot)
        DD    == FDiv(FSub(vdotvdot, FMul(FDiv(FMul(D(3), mu), ri3), rdotrdot)), C2)
    IN  [k \in 1..3 |->
           FSub(FSub(FMul(FMul(B, FSub(D(1), s.A)), p.r[k]), FMul(s.A, p.a[k])),
                FMul(DD, s.vi[k]))]

\* particles[i].ax += ... : particle i after its relativistic correction.
GrOne(p, G, C2) ==
    [p EXCEPT !.a = [k \in 1..3 |-> FAdd(p.a[k], GrTerm(p, G, C2)[k])]]

\* A variant of GrApply that corrects every particle in every iteration.
GrApply_EveryParticle(parts, i, G, C2) ==
    [j \in 1..Len(parts) |-> GrOne(parts[j], G, C2)]

\* The array after iteration i (1-based) of the loop over the particles.
GrApply(parts, i, G, C2) == [parts EXCEPT ![i] = GrOne(parts[i], G, C2)]

(***************************************************************************)
(* Bounds of the model and the inputs drawn in Init.                       *)
(***************************************************************************)
\* Calls of rebx_ephemeris_forces the host makes in one process run.
MaxCalls == 2

IntP(n) == [k |-> "int", v |-> n]

\* sim->G
SimG == D(1)
\* N_ephem, N_ast and c as rebx_get_param answers: NULL, or the value.
NephemValues == {NULL, IntP(11), IntP(12)}
NastValues == {NULL, IntP(2), IntP(17)}
CValues == {NULL, D(1), Inf(1)}
\* sim->t at the first call; the host advances it by TimeStep per call.
Epochs == {D(9), D(13), D(18)}
TimeStep == D(1)

Particle(r, v, a) == [r |-> r, v |-> v, a |-> a, m |-> Zero]
PA == Particle(Vec(D(1), Zero, Zero), VecNul, VecNul)
PB == Particle(Vec(Zero, D(2), Zero), Vec(D(1), Zero, Zero), Vec(Zero, Zero, D(1)))
PC == Particle(Vec(D(-2), D(1), D(1)), Vec(Zero, Fin(-2), Zero), Vec(Fin(1), Zero, Fin(-3)))
\* The particle arrays the host may hand over (N = 1, 2, 3); the first holds
\* one particle at the barycenter.
ParticleArrays ==
    {<<Particle(VecNul, Vec(Zero, D(1), Zero), VecNul)>>,
     <<PA, PB>>,
     <<PC, PB, PA>>}

\* What an automatic struct mpos_s may hold before it is assigned.
Garbage ==
    {[u |-> VecNul, v |-> VecNul, jde |-> Zero],
     [u |-> Vec(D(3), D(-1), Fin(2)), v |-> Vec(Fin(1), Zero, D(-2)), jde |-> D(7)]}

\* What a read through a null int pointer may give when it does not trap.
GarbageInts == {0, 1}

NoQuery ==
    [i |-> -1, jde |-> Zero, called |-> FALSE, ret |-> 0, written |-> FALSE,
     m |-> Zero, u |-> VecNul, v |-> VecNul]

NoAst == [i |-> -1, m |-> Zero, u |-> VecNul]

\* No call of jpl_calc by the host yet.
NoCalc ==
    [n |-> -1, m |-> -1, jde |-> Zero, called |-> FALSE, pl |-> NULL,
     out |-> NULL, ret |-> 0, now |-> NULL]

\* The threads of the host that call ephem (one in Spec, both in SpecMT).
Threads == {1, 2}

VARIABLES
    initialized, pl, spl,        \* the statics of ephem
    ast_initialized, ast_spl,    \* the statics of ast_ephem
    proc,                        \* "running", "exited" (exit) or "crashed" (a signal)
    stderr,                      \* the messages written: stderr, reb_error, reb_warning
    stack,                       \* the indeterminate content of an unassigned struct mpos_s
    sim_t, N_ephem, N_ast, c,    \* sim->t and the parameters of the force
    particles,                   \* the host's particle array
    pc, i, C2, m, u, us,         \* rebx_ephemeris_forces: position, i, C2, m, (x,y,z), (xs,ys,zs)
    q,                           \* the last call of ephem and what it gave its caller
    aq,                          \* what the last call of ast_ephem gave its caller
    particles0,                  \* the particle array when the current call began
    solo,                        \* solo[j]: particle j in a run of the same call on <<particles0[j]>>
    added,                       \* added[j]: the sum of the terms added to particle j in this call
    calls,                       \* calls of rebx_ephemeris_forces so far
    outcome,                     \* how the last call of rebx_ephemeris_forces ended
    jplInitCalls, spkInitCalls,  \* calls of jpl_init and of spk_init so far
    jplFirst, spkFirst,          \* what the first load of each file met
    returned,                    \* calls of ephem and ast_ephem that returned to the caller
    astQueried,                  \* the indices handed to spk_calc so far
    tpc,                         \* tpc[t]: where thread t stands in ephem
    tq,                          \* tq[t]: what ephem gave thread t
    jc                           \* the last call of jpl_calc by the host: arguments, result, *now

statics == <<initialized, pl, spl>>
aststatics == <<ast_initialized, ast_spl>>
params == <<N_ephem, N_ast, c>>
frame == <<pc, i, C2, m, u, us>>
loads == <<jplInitCalls, spkInitCalls, jplFirst, spkFirst>>
vars == <<initialized, pl, spl, ast_initialized, ast_spl, proc, stderr, stack,
          sim_t, N_ephem, N_ast, c, particles, pc, i, C2, m, u, us, q, aq,
          particles0, solo, added, calls, outcome, jplInitCalls, spkInitCalls,
          jplFirst, spkFirst, returned, astQueried, tpc, tq, jc>>

Init ==
    /\ initialized = 0 /\ pl = NULL /\ spl = NULL
    /\ ast_initialized = 0 /\ ast_spl = NULL
    /\ proc = "running"
    /\ stderr = <<>>
    /\ stack \in Garbage
    /\ sim_t \in Epochs
    /\ N_ephem \in NephemValues
    /\ N_ast \in NastValues
    /\ c \in CValues
    /\ particles \in ParticleArrays
    /\ pc = "idle" /\ i = 0 /\ C2 = Zero /\ m = Zero /\ u = VecNul /\ us = VecNul
    /\ q = NoQuery
    /\ aq = NoAst
    /\ particles0 = particles
    /\ solo = particles
    /\ added = [j \in 1..Len(particles) |-> VecNul]
    /\ calls = 0
    /\ outcome = "none"
    /\ jplInitCalls = 0 /\ spkInitCalls = 0
    /\ jplFirst = "none" /\ spkFirst = "none"
    /\ returned = 0
    /\ astQueried = {}
    /\ tpc = [t \in Threads |-> "none"]
    /\ tq = [t \in Threads |-> NoQuery]
    /\ jc = NoCalc

(***************************************************************************)
(* ephem(G, i, t, &m, &x, &y, &z, &vx, &vy, &vz), as one step.             *)
(***************************************************************************)
\* A variant of the test below that forgets the flag: every call initialises.
NeedsInit_Always(init) == TRUE

\* if (initialized == 0)
NeedsInit(init) == init = 0

\* The query of branch bi once the statics are set: what jpl_calc returns
\* and leaves in the automatic now (unassigned before the call).  Where the
\* reads of jpl_calc are undefined and do not trap, they give anything.
EphemCalc(handle, now, bi, jde) ==
    IF CalcUndefined(handle, jde)
    THEN [ret |-> 0, now |-> now]
    ELSE jpl_calc(handle, now, jde, EphemBody[bi + 1], PLAN_BAR)

\* What the call leaves in q.
EphemQuery(handle, now, G, bi, jde) ==
    IF EphemHasBranch(bi)
    THEN Only({ [i |-> bi, jde |-> jde, called |-> TRUE, ret |-> r.ret,
                 written |-> TRUE,
                 m |-> EphemAssign(G, bi, handle, r.now).m,
                 u |-> EphemAssign(G, bi, handle, r.now).u,
                 v |-> EphemAssign(G, bi, handle, r.now).v]
                : r \in {EphemCalc(handle, now, bi, jde)} })
    ELSE [NoQuery EXCEPT !.i = bi, !.jde = jde]

\* Lines 450-465, then the branch for bi.  jpl_init and spk_init meet one of
\* the files a process may find; initialized stays 0 exactly when one of
\* them gave NULL and the process has exited.
EphemCall(bi, jde) ==
    \E fn \in (IF NeedsInit(initialized) THEN JplFileNames ELSE {"ok"}),
       sok \in (IF NeedsInit(initialized) THEN BOOLEAN ELSE {TRUE}) :
      /\ pl' = IF NeedsInit(initialized) THEN jpl_init(JplFiles[fn]) ELSE pl
      /\ spl' = IF NeedsInit(initialized) /\ pl' # NULL THEN spk_init(sok) ELSE spl
      /\ initialized' = IF pl' # NULL /\ spl' # NULL THEN 1 ELSE initialized
      /\ jplInitCalls' = IF NeedsInit(initialized) THEN jplInitCalls + 1
                         ELSE jplInitCalls
      /\ spkInitCalls' = IF NeedsInit(initialized) /\ pl' # NULL
                         THEN spkInitCalls + 1 ELSE spkInitCalls
      /\ jplFirst' = IF NeedsInit(initialized) /\ jplFirst = "none"
                     THEN fn ELSE jplFirst
      /\ spkFirst' = IF NeedsInit(initialized) /\ pl' # NULL /\ spkFirst = "none"
                     THEN (IF sok THEN "ok" ELSE "missing") ELSE spkFirst
      /\ stderr' = IF pl' = NULL
                   THEN Append(stderr, "could not load DE430 file")
                   ELSE IF spl' = NULL
                   THEN Append(stderr, "could not load sb431-n16 file")
                   ELSE stderr
      /\ proc' \in IF initialized' = 0
                    THEN {"exited"}
                    ELSE IF EphemHasBranch(bi) /\ CalcUndefined(pl', jde)
                    THEN {proc, "crashed"}
                    ELSE {proc}
      /\ q' = IF proc' = "running"
              THEN EphemQuery(pl', stack, SimG, bi, jde) ELSE q
      /\ returned' = IF proc' = "running" THEN returned + 1 ELSE returned

(***************************************************************************)
(* ast_ephem(G, i, t, &m, &x, &y, &z), as one step.  The result is left in *)
(* aq.                                                                     *)
(***************************************************************************)
AstCall(ai, jde) ==
    IF AstOutOfRange(ai)
    THEN /\ stderr' = Append(stderr, "asteroid out of range")
         /\ proc' = "exited"
         /\ UNCHANGED <<ast_initialized, ast_spl, spkInitCalls, spkFirst,
                        astQueried, aq, returned>>
    ELSE \E sok \in (IF NeedsInit(ast_initialized) THEN BOOLEAN ELSE {TRUE}) :
           LET need == NeedsInit(ast_initialized)
               s    == IF need THEN spk_init(sok) ELSE ast_spl
               fail == need /\ s = NULL
           IN  /\ ast_spl' = s
               /\ ast_initialized' = IF need /\ ~fail THEN 1 ELSE ast_initialized
               /\ spkInitCalls' = IF need THEN spkInitCalls + 1 ELSE spkInitCalls
               /\ spkFirst' = IF need /\ spkFirst = "none"
                              THEN (IF sok THEN "ok" ELSE "missing") ELSE spkFirst
               /\ stderr' = IF fail
                            THEN Append(stderr, "could not load sb431-n16 file")
                            ELSE stderr
               /\ proc' = IF fail THEN "exited" ELSE proc
               /\ astQueried' = IF fail THEN astQueried ELSE astQueried \cup {ai}
               /\ aq' = IF fail THEN aq
                         ELSE [i |-> ai,
                               m |-> AstAssign(SimG, ai, ast_spl', jde, stack.jde).m,
                               u |-> AstAssign(SimG, ai, ast_spl', jde, stack.jde).u]
               /\ returned' = IF fail THEN returned ELSE returned + 1


(***************************************************************************)
(* rebx_ephemeris_forces(sim, force, particles, N), step by step.          *)
(***************************************************************************)
ephemvars == <<initialized, pl, spl, jplInitCalls, spkInitCalls, jplFirst,
               spkFirst, q>>
astvars == <<ast_initialized, ast_spl, astQueried, aq>>
threadvars == <<tpc, tq>>
ghosts == <<solo, added>>
hostvars == <<stack, sim_t, N_ephem, N_ast, c, calls, particles0, threadvars,
              jc>>

\* The host calls the force routine; between two calls it advances sim->t.
Call ==
    /\ proc = "running" /\ pc = "idle" /\ calls < MaxCalls
    /\ calls' = calls + 1
    /\ sim_t' = IF calls = 0 THEN sim_t ELSE FAdd(sim_t, TimeStep)
    /\ particles0' = particles
    /\ solo' = particles
    /\ added' = [j \in 1..Len(particles) |-> VecNul]
    /\ pc' = "entry"
    /\ outcome' = "running"
    /\ UNCHANGED <<ephemvars, astvars, proc, stderr, stack, N_ephem, N_ast, c,
                   particles, i, C2, m, u, us, returned, threadvars, jc>>

\* A variant of the test below without the check of c.
MissingParam_IgnoresC(Ne, cc) == IF Ne = NULL THEN "N_ephem" ELSE "none"

\* The parameter the routine misses, in the order it tests them.
MissingParam(Ne, cc) ==
    IF Ne = NULL THEN "N_ephem" ELSE IF cc = NULL THEN "c" ELSE "none"

\* Lines 685-700: fetch the parameters; return when N_ephem or c is absent.
Entry ==
    /\ proc = "running" /\ pc = "entry"
    /\ IF MissingParam(N_ephem, c) = "none"
       THEN /\ C2' = FMul(c, c)
            /\ pc' = "earth"
            /\ UNCHANGED <<stderr, outcome>>
       ELSE /\ stderr' = Append(stderr, IF MissingParam(N_ephem, c) = "N_ephem"
                                         THEN "Need to set N_ephem"
                                         ELSE "Need to set speed of light")
            /\ pc' = "idle"
            /\ outcome' = "skipped"
            /\ UNCHANGED C2
    /\ UNCHANGED <<ephemvars, astvars, hostvars, proc, particles, ghosts, i, m,
                   u, us, returned>>

\* Line 706: ephem(G, 3, t, &m, &xe, ...).
EarthQuery ==
    /\ proc = "running" /\ pc = "earth"
    /\ EphemCall(3, sim_t)
    /\ m' = IF proc' = "running" /\ q'.written THEN q'.m ELSE m
    /\ pc' = IF proc' = "running" THEN "bodies" ELSE pc
    /\ i' = 0
    /\ UNCHANGED <<astvars, hostvars, particles, ghosts, C2, u, us, outcome>>

\* What the loop test  i < *N  may read: the value, or anything when the
\* pointer is null and the read does not trap.
LoopBounds(ptr) == IF ptr = NULL THEN GarbageInts ELSE {ptr.v}

\* Lines 709-722, one iteration: ephem for body i, then every particle.
BodyStep ==
    /\ proc = "running" /\ pc = "bodies"
    /\ \E n \in LoopBounds(N_ephem) : i < n
    /\ EphemCall(i, sim_t)
    /\ m' = IF proc' = "running" /\ q'.written THEN q'.m ELSE m
    /\ u' = IF proc' = "running" /\ q'.written THEN q'.u ELSE u
    /\ particles' = IF proc' = "running"
                    THEN NewtonAccum(particles, SimG, m', u') ELSE particles
    /\ solo' = IF proc' = "running"
               THEN [j \in 1..Len(solo) |->
                       NewtonAccum(<<solo[j]>>, SimG, m', u')[1]]
               ELSE solo
    /\ added' = IF proc' = "running"
                THEN [j \in 1..Len(added) |->
                        VecAdd(added[j], NewtonTerm(SimG, m', particles[j].r, u'))]
                ELSE added
    /\ i' = IF proc' = "running" THEN i + 1 ELSE i
    /\ UNCHANGED <<astvars, hostvars, pc, C2, us, outcome>>

BodiesDone ==
    /\ proc = "running" /\ pc = "bodies"
    /\ \E n \in LoopBounds(N_ephem) : i >= n
    /\ pc' = "sun"
    /\ UNCHANGED <<ephemvars, astvars, hostvars, proc, stderr, particles, ghosts,
                   i, C2, m, u, us, outcome, returned>>

\* Line 726: ephem(G, 0, t, &m, &xs, &ys, &zs, ...).
SunQuery ==
    /\ proc = "running" /\ pc = "sun"
    /\ EphemCall(0, sim_t)
    /\ m' = IF proc' = "running" /\ q'.written THEN q'.m ELSE m
    /\ us' = IF proc' = "running" /\ q'.written THEN q'.u ELSE us
    /\ pc' = IF proc' = "running" THEN "asts" ELSE pc
    /\ i' = 0
    /\ UNCHANGED <<astvars, hostvars, particles, ghosts, C2, u, outcome>>

\* Lines 729-745, one iteration: ast_ephem for asteroid i, the translation
\* to the barycenter, then every particle.
AstStep ==
    /\ proc = "running" /\ pc = "asts"
    /\ \E n \in LoopBounds(N_ast) : i < n
    /\ AstCall(i, sim_t)
    /\ m' = IF proc' = "running" THEN aq'.m ELSE m
    /\ u' = IF proc' = "running" THEN [k \in 1..3 |-> FAdd(aq'.u[k], us[k])] ELSE u
    /\ particles' = IF proc' = "running"
                    THEN NewtonAccum(particles, SimG, m', u') ELSE particles
    /\ solo' = IF proc' = "running"
               THEN [j \in 1..Len(solo) |->
                       NewtonAccum(<<solo[j]>>, SimG, m', u')[1]]
               ELSE solo
    /\ added' = IF proc' = "running"
                THEN [j \in 1..Len(added) |->
                        VecAdd(added[j], NewtonTerm(SimG, m', particles[j].r, u'))]
                ELSE added
    /\ i' = IF proc' = "running" THEN i + 1 ELSE i
    /\ UNCHANGED <<initialized, pl, spl, jplInitCalls, jplFirst, q, hostvars,
                   pc, C2, us, outcome>>

AstsDone ==
    /\ proc = "running" /\ pc = "asts"
    /\ \E n \in LoopBounds(N_ast) : i >= n
    /\ pc' = "gr"
    /\ i' = 0
    /\ UNCHANGED <<ephemvars, astvars, hostvars, proc, stderr, particles, ghosts,
                   C2, m, u, us, outcome, returned>>

\* The pointer the loop test at pc dereferences.
LoopPointer == IF pc = "bodies" THEN N_ephem ELSE N_ast

\* The read of *N_ephem or *N_ast through a null pointer traps (SIGSEGV).
NullDeref ==
    /\ proc = "running" /\ pc \in {"bodies", "asts"}
    /\ LoopPointer = NULL
    /\ proc' = "crashed"
    /\ UNCHANGED <<ephemvars, astvars, hostvars, stderr, particles, ghosts, frame,
                   outcome, returned>>

\* Lines 752-801, one iteration: the relativistic correction of particle i.
GRStep ==
    /\ proc = "running" /\ pc = "gr"
    /\ i < Len(particles)
    /\ particles' = GrApply(particles, i + 1, SimG, C2)
    /\ solo' = [solo EXCEPT ![i + 1] = GrApply(<<solo[i + 1]>>, 1, SimG, C2)[1]]
    /\ added' = [added EXCEPT ![i + 1] =
                   VecAdd(added[i + 1], GrTerm(particles[i + 1], SimG, C2))]
    /\ stderr' = IF GrWarns(particles[i + 1], SimG, C2)
                 THEN Append(stderr, "10 iterations in gr.c failed to converge")
                 ELSE stderr
    /\ i' = i + 1
    /\ UNCHANGED <<ephemvars, astvars, hostvars, proc, pc, C2, m, u, us,
                   outcome, returned>>

\* The routine returns.
GRDone ==
    /\ proc = "running" /\ pc = "gr"
    /\ i >= Len(particles)
    /\ pc' = "idle"
    /\ outcome' = "done"
    /\ UNCHANGED <<ephemvars, astvars, hostvars, proc, stderr, particles, ghosts,
                   i, C2, m, u, us, returned>>

Next ==
    \/ Call
    \/ Entry
    \/ EarthQuery
    \/ BodyStep
    \/ BodiesDone
    \/ SunQuery
    \/ AstStep
    \/ AstsDone
    \/ NullDeref
    \/ GRStep
    \/ GRDone

Spec == Init /\ [][Next]_vars

(***************************************************************************)
(* SpecMT: two threads of the host inside ephem at once.  The statics are  *)
(* shared and unguarded; every statement of lines 450-465 is one step of   *)
(* a thread, and the branch for the earth (i == 3) is the last one.        *)
(***************************************************************************)
InitMT ==
    /\ initialized = 0 /\ pl = NULL /\ spl = NULL
    /\ ast_initialized = 0 /\ ast_spl = NULL
    /\ proc = "running"
    /\ stderr = <<>>
    /\ stack \in Garbage
    /\ sim_t \in Epochs
    /\ N_ephem = IntP(11) /\ N_ast = IntP(0) /\ c = D(1)
    /\ particles = <<>>
    /\ pc = "ephem" /\ i = 3 /\ C2 = Zero /\ m = Zero /\ u = VecNul /\ us = VecNul
    /\ q = NoQuery
    /\ aq = NoAst
    /\ particles0 = <<>>
    /\ solo = <<>>
    /\ added = <<>>
    /\ calls = 0
    /\ outcome = "none"
    /\ jplInitCalls = 0 /\ spkInitCalls = 0
    /\ jplFirst = "none" /\ spkFirst = "none"
    /\ returned = 0
    /\ astQueried = {}
    /\ tpc = [t \in Threads |-> "test"]
    /\ tq = [t \in Threads |-> NoQuery]
    /\ jc = NoCalc

mtframe == <<ast_initialized, ast_spl, stack, sim_t, N_ephem, N_ast, c,
             particles, pc, i, C2, m, u, us, q, aq, particles0, ghosts, calls,
             outcome, astQueried, jc>>

\* Line 450: if (initialized == 0)
TTest(t) ==
    /\ proc = "running" /\ tpc[t] = "test"
    /\ tpc' = [tpc EXCEPT ![t] = IF NeedsInit(initialized)
                                 THEN "jpl_init" ELSE "branch"]
    /\ UNCHANGED <<statics, loads, proc, stderr, returned, tq, mtframe>>

\* Lines 452-455: pl = jpl_init(); exit when it is NULL.
TJplInit(t) ==
    /\ proc = "running" /\ tpc[t] = "jpl_init"
    /\ \E fn \in JplFileNames :
         /\ pl' = jpl_init(JplFiles[fn])
         /\ jplFirst' = IF jplFirst = "none" THEN fn ELSE jplFirst
    /\ jplInitCalls' = jplInitCalls + 1
    /\ stderr' = IF pl' = NULL
                 THEN Append(stderr, "could not load DE430 file") ELSE stderr
    /\ proc' = IF pl' = NULL THEN "exited" ELSE proc
    /\ tpc' = IF pl' = NULL THEN tpc ELSE [tpc EXCEPT ![t] = "spk_init"]
    /\ UNCHANGED <<initialized, spl, spkInitCalls, spkFirst, returned, tq,
                   mtframe>>

\* Lines 457-460: spl = spk_init(...); exit when it is NULL.
TSpkInit(t) ==
    /\ proc = "running" /\ tpc[t] = "spk_init"
    /\ \E sok \in BOOLEAN :
         /\ spl' = spk_init(sok)
         /\ spkFirst' = IF spkFirst = "none"
                        THEN (IF sok THEN "ok" ELSE "missing") ELSE spkFirst
    /\ spkInitCalls' = spkInitCalls + 1
    /\ stderr' = IF spl' = NULL
                 THEN Append(stderr, "could not load sb431-n16 file") ELSE stderr
    /\ proc' = IF spl' = NULL THEN "exited" ELSE proc
    /\ tpc' = IF spl' = NULL THEN tpc ELSE [tpc EXCEPT ![t] = "set"]
    /\ UNCHANGED <<initialized, pl, jplInitCalls, jplFirst, returned, tq,
                   mtframe>>

\* Line 463: initialized = 1;
TSet(t) ==
    /\ proc = "running" /\ tpc[t] = "set"
    /\ initialized' = 1
    /\ tpc' = [tpc EXCEPT ![t] = "branch"]
    /\ UNCHANGED <<pl, spl, loads, proc, stderr, returned, tq, mtframe>>

\* Lines 468-554: the branch for i, through whatever pl is at that moment.
TBranch(t) ==
    /\ proc = "running" /\ tpc[t] = "branch"
    /\ proc' \in IF CalcUndefined(pl, sim_t) THEN {proc, "crashed"} ELSE {proc}
    /\ tq' = IF proc' = "running"
             THEN [tq EXCEPT ![t] = EphemQuery(pl, stack, SimG, i, sim_t)]
             ELSE tq
    /\ tpc' = IF proc' = "running" THEN [tpc EXCEPT ![t] = "returned"] ELSE tpc
    /\ returned' = IF proc' = "running" THEN returned + 1 ELSE returned
    /\ UNCHANGED <<statics, loads, stderr, mtframe>>

Test == \E t \in Threads : TTest(t)
JplInit == \E t \in Threads : TJplInit(t)
SpkInit == \E t \in Threads : TSpkInit(t)
SetInitialized == \E t \in Threads : TSet(t)
Branch == \E t \in Threads : TBranch(t)

NextMT ==
    \/ Test
    \/ JplInit
    \/ SpkInit
    \/ SetInitialized
    \/ Branch

SpecMT == InitMT /\ [][NextMT]_vars

(***************************************************************************)
(* SpecAst: ast_ephem called directly, with any index an int may hold      *)
(* around the catalog's range.                                             *)
(***************************************************************************)
\* The indices tried: MaxBelow of them below 0, and 0 .. MaxAstIndex.
MaxBelow == 2
MaxAstIndex == 17
AstIndices == (-MaxBelow)..MaxAstIndex

InitAst ==
    /\ initialized = 0 /\ pl = NULL /\ spl = NULL
    /\ ast_initialized = 0 /\ ast_spl = NULL
    /\ proc = "running"
    /\ stderr = <<>>
    /\ stack \in Garbage
    /\ sim_t \in Epochs
    /\ N_ephem = IntP(11) /\ N_ast = IntP(0) /\ c = D(1)
    /\ particles = <<>>
    /\ pc = "ast_ephem" /\ i = 0 /\ C2 = Zero /\ m = Zero /\ u = VecNul /\ us = VecNul
    /\ q = NoQuery
    /\ aq = NoAst
    /\ particles0 = <<>>
    /\ solo = <<>>
    /\ added = <<>>
    /\ calls = 0
    /\ outcome = "none"
    /\ jplInitCalls = 0 /\ spkInitCalls = 0
    /\ jplFirst = "none" /\ spkFirst = "none"
    /\ returned = 0
    /\ astQueried = {}
    /\ tpc = [t \in Threads |-> "none"]
    /\ tq = [t \in Threads |-> NoQuery]
    /\ jc = NoCalc

\* One call ast_ephem(G, k, t, &m, &x, &y, &z); i keeps the index handed in.
AstQuery ==
    /\ proc = "running" /\ pc = "ast_ephem" /\ calls < MaxCalls
    /\ \E k \in AstIndices :
         /\ AstCall(k, sim_t)
         /\ i' = k
    /\ calls' = calls + 1
    /\ UNCHANGED <<initialized, pl, spl, jplInitCalls, jplFirst, q, stack,
                   sim_t, N_ephem, N_ast, c, particles, particles0, ghosts, pc,
                   C2, m, u, us, outcome, threadvars, jc>>

NextAst == AstQuery

SpecAst == InitAst /\ [][NextAst]_vars

(***************************************************************************)
(* SpecQuery: a host that calls one of the two query functions directly,   *)
(* at epochs around both ends of the file.  With pc = "jpl_calc" it holds  *)
(* a handle it got from jpl_init and hands jpl_calc that handle or a null  *)
(* pointer, and its own struct mpos_s (stack) or a null pointer; with      *)
(* pc = "ephem" it asks ephem, which loads the files on first use, for     *)
(* body i at the epoch sim_t, and asks again.                              *)
(***************************************************************************)
InitQuery ==
    /\ pc \in {"jpl_calc", "ephem"}
    /\ initialized = 0 /\ spl = NULL
    /\ \E fn \in {"ok", "nomap"}, k \in {1, 3} :
         IF pc = "jpl_calc" /\ (fn = "ok" \/ k = 3)
         THEN /\ pl = jpl_init([JplFiles[fn] EXCEPT !.hdr.cem = D(k)])
              /\ jplInitCalls = 1 /\ jplFirst = fn
         ELSE /\ pl = NULL
              /\ jplInitCalls = 0 /\ jplFirst = "none"
    /\ ast_initialized = 0 /\ ast_spl = NULL
    /\ proc = "running"
    /\ stderr = <<>>
    /\ stack \in Garbage
    /\ IF pc = "ephem"
       THEN /\ i \in 0..11
            /\ sim_t \in {FAdd(FileHeader.beg, Fin(d)) : d \in {-1, 0}}
                        \cup {D(13)}
                        \cup {FAdd(FileHeader.end, Fin(d)) : d \in {0, 1}}
       ELSE i = 0 /\ sim_t = Zero
    /\ N_ephem = IntP(11) /\ N_ast = IntP(0) /\ c = D(1)
    /\ particles = <<>>
    /\ C2 = Zero /\ m = Zero /\ u = VecNul /\ us = VecNul
    /\ q = NoQuery
    /\ aq = NoAst
    /\ particles0 = <<>>
    /\ solo = <<>>
    /\ added = <<>>
    /\ calls = 0
    /\ outcome = "none"
    /\ spkInitCalls = 0 /\ spkFirst = "none"
    /\ returned = 0
    /\ astQueried = {}
    /\ tpc = [t \in Threads |-> "none"]
    /\ tq = [t \in Threads |-> NoQuery]
    /\ jc = NoCalc

\* One call jpl_calc(h, out, jde, n, r) by the host.  Where the resolvers
\* read the record and the read is undefined, the call traps or returns 0
\* with anything in u and v.
CalcQuery ==
    /\ proc = "running" /\ pc = "jpl_calc" /\ calls < MaxCalls
    /\ \E h \in {pl, NULL}, out \in {stack, NULL},
          n \in {PLAN_BAR, PLAN_SOL, PLAN_EAR, PLAN_EMB, PLAN_LUN},
          r \in {PLAN_BAR, PLAN_EAR},
          jde \in {FAdd(FileHeader.beg, Fin(d)) : d \in {-1, 0}}
                \cup {D(13)}
                \cup {FAdd(FileHeader.end, Fin(d)) : d \in {0, 1}} :
         /\ (h = NULL \/ out = NULL) =>
                (n = PLAN_SOL /\ r = PLAN_BAR /\ jde = D(13))
         /\ IF /\ h # NULL /\ out # NULL
               /\ n # PLAN_BAR \/ r # PLAN_BAR
               /\ CalcUndefined(h, jde)
            THEN /\ proc' \in {proc, "crashed"}
                 /\ \E g \in Garbage :
                      jc' = IF proc' = "running"
                            THEN [n |-> n, m |-> r, jde |-> jde, called |-> TRUE,
                                  pl |-> h, out |-> out, ret |-> 0,
                                  now |-> [g EXCEPT !.jde = jde]]
                            ELSE jc
            ELSE /\ proc' = proc
                 /\ jc' \in { [n |-> n, m |-> r, jde |-> jde, called |-> TRUE,
                              pl |-> h, out |-> out, ret |-> res.ret,
                              now |-> res.now]
                             : res \in {jpl_calc(h, out, jde, n, r)} }
         /\ stack' = IF proc' = "running" /\ out # NULL THEN jc'.now ELSE stack
    /\ calls' = calls + 1
    /\ UNCHANGED <<ephemvars, astvars, stderr, sim_t, N_ephem, N_ast, c,
                   particles, particles0, ghosts, frame, outcome, returned,
                   threadvars>>

\* One call ephem(G, i, t, &m, &x, &y, &z, ...) by the host, with its own m
\* and (x, y, z) as outputs.
EphemDirect ==
    /\ proc = "running" /\ pc = "ephem" /\ calls < MaxCalls
    /\ EphemCall(i, sim_t)
    /\ m' = IF proc' = "running" /\ q'.written THEN q'.m ELSE m
    /\ u' = IF proc' = "running" /\ q'.written THEN q'.u ELSE u
    /\ calls' = calls + 1
    /\ UNCHANGED <<astvars, stack, sim_t, N_ephem, N_ast, c, particles,
                   particles0, ghosts, pc, i, C2, us, outcome, threadvars, jc>>

NextQuery ==
    \/ CalcQuery
    \/ EphemDirect

SpecQuery == InitQuery /\ [][NextQuery]_vars

(***************************************************************************)
(* The claims of the specification, stated on the model.                   *)
(***************************************************************************)
\* jde lies strictly outside [beg, end] of the mapped file behind handle.
EpochOutside(handle, jde) ==
    /\ handle # NULL
    /\ handle.map = "mapped"
    /\ FLt(jde, handle.beg) \/ FGt(jde, handle.end)

\* C1: a call of ephem for a body 0..10 at an epoch strictly outside
\* [begin, end] of the mapped file gives its caller an out-of-range error and
\* delivers no position or velocity as if it were a valid state.
C1_OutOfRangeEpochIsAnError ==
    (q.called /\ EpochOutside(pl, q.jde)) => ~q.written

\* C2: in a single-threaded run jpl_init is called exactly once, during the
\* first call of ephem; every later call finds the same handle, which is
\* never opened again or replaced.
C2_JplInitExactlyOnce ==
    /\ [](/\ jplInitCalls <= 1
          /\ q.i # -1 => (jplInitCalls = 1 /\ pl # NULL))
    /\ [][/\ jplInitCalls' # jplInitCalls => (jplInitCalls = 0 /\ q = NoQuery)
          /\ pl # NULL => pl' = pl]_vars

\* The host's second call of the force routine is at its query of the sun:
\* more than a dozen calls of ephem after the one that opened the store.
C2_LaterCallsReached ==
    calls = 2 /\ pc = "sun" /\ q.called /\ returned > 12 /\ jplInitCalls = 1

\* C3: when two threads make their first call of ephem at once, jpl_init
\* runs at most once and the two threads are never both past the test
\* initialized == 0 with the statics still being set.
C3_FirstUseSerialised ==
    /\ jplInitCalls <= 1
    /\ ~(\A t \in Threads : tpc[t] \in {"jpl_init", "spk_init", "set"})

\* C4: when N_ephem or c is absent, rebx_ephemeris_forces reports it and
\* returns: no body is queried, every particle is as it was on entry, the
\* process keeps running and the host may call again.
C4_MissingParamSkips ==
    (N_ephem = NULL \/ c = NULL) =>
        /\ pc \in {"idle", "entry"}
        /\ proc = "running"
        /\ particles = particles0
        /\ returned = 0
        /\ (pc = "idle" /\ calls > 0) =>
              /\ outcome = "skipped"
              /\ Len(stderr) = calls
              /\ stderr[calls] = IF N_ephem = NULL
                                 THEN "Need to set N_ephem"
                                 ELSE "Need to set speed of light"

\* The second call in a row was skipped for the missing speed of light.
C4_SkippedTwice ==
    /\ c = NULL /\ N_ephem # NULL
    /\ calls = 2 /\ pc = "idle" /\ outcome = "skipped"
    /\ Len(particles) = 3

\* C5: when N_ast is absent (N_ephem and c present), the routine logs and
\* skips the step: it never reaches the loop test that reads *N_ast, no
\* acceleration is modified and the call ends as a skipped one.
C5_MissingNastSkips ==
    (N_ast = NULL /\ N_ephem # NULL /\ c # NULL) =>
        /\ pc # "asts"
        /\ particles = particles0
        /\ (pc = "idle" /\ calls > 0) => outcome = "skipped"

\* C6: when the first load of the ephemeris file or of the kernel file
\* fails, the process has exited before any body state was returned and
\* before any acceleration was modified.
C6_LoadFailureStops ==
    (jplFirst \notin {"none", "ok"} \/ spkFirst = "missing") =>
        /\ proc = "exited"
        /\ returned = 0
        /\ q = NoQuery
        /\ particles = particles0

\* C7: jpl_init gives NULL when open, fstat, lseek or mmap failed, and a
\* handle it does give holds a mapping.
C7_NullOnAnyFailure ==
    /\ jplFirst \notin {"none", "ok"} => pl = NULL
    /\ pl # NULL => pl.map = "mapped"

\* C8: a call of ast_ephem with an index outside [0, 15] writes "asteroid
\* out of range" and exits, with the statics, the count of spk_init calls,
\* the indices handed to spk_calc and the caller's outputs all untouched.
C8_OutOfRangeIsFatal ==
    [][(calls' # calls /\ (i' < 0 \/ i' > 15)) =>
          /\ proc' = "exited"
          /\ stderr' = Append(stderr, "asteroid out of range")
          /\ UNCHANGED <<ast_initialized, ast_spl, spkInitCalls, spkFirst,
                         astQueried, aq, returned>>]_vars

\* After asteroid 15 was served, index 16 was refused.
C8_SixteenRefused ==
    /\ pc = "ast_ephem" /\ i = 16 /\ proc = "exited"
    /\ aq.i = 15 /\ astQueried = {15}

\* C9: during a call of rebx_ephemeris_forces every particle keeps its
\* position, velocity and mass, and its acceleration is the one it had on
\* entry plus the sum of the terms added so far.
C9_AccelerationIsEntryPlusTerms ==
    /\ Len(particles) = Len(particles0)
    /\ \A j \in 1..Len(particles) :
         /\ particles[j].r = particles0[j].r
         /\ particles[j].v = particles0[j].v
         /\ particles[j].m = particles0[j].m
         /\ particles[j].a = VecAdd(particles0[j].a, added[j])

\* A call ran to its end on particles with an acceleration on entry, and
\* added something to each.
C9_CallCompleted ==
    /\ outcome = "done" /\ pc = "idle" /\ jplFirst = "ok"
    /\ Len(particles) = 3
    /\ \A j \in 1..2 : particles0[j].a # VecNul /\ added[j] # VecNul

\* C10: the acceleration of particle j is the one it has in the run of the
\* same call, at the same time and with the same parameters, on the array
\* that holds particle j alone.
C10_NoCrossParticleDependency ==
    /\ Len(solo) = Len(particles)
    /\ \A j \in 1..Len(particles) : particles[j] = solo[j]

\* Particle PB ended a call as the second of three particles.
C10_SecondOfThree ==
    /\ outcome = "done" /\ Len(particles) = 3
    /\ particles0[2] = PB /\ particles[2].a # PB.a
    /\ sim_t = D(13)

\* The loop body of lines 764-777 run k times on particle part with no
\* break: the velocity estimate, A, and whether the test of line 775 held in
\* pass k.
RECURSIVE C11_Pass(_, _)
C11_Pass(part, k) ==
    IF k = 0
    THEN [vi |-> part.v, vi2 |-> Dot(part.v, part.v),
          A |-> GrA(Dot(part.v, part.v), FMul(SimG, D(1)), FSqrt(Dot(part.r, part.r)), C2),
          brk |-> FALSE]
    ELSE Only({ GrIter(part.v, FMul(SimG, D(1)), FSqrt(Dot(part.r, part.r)), C2, s.vi, s.A)
                : s \in {C11_Pass(part, k - 1)} })

\* The first of the 10 passes whose test holds; 0 when none does.
C11_FirstMet(part) ==
    LET met == {k \in 1..10 : C11_Pass(part, k).brk}
    IN  IF met = {} THEN 0 ELSE CHOOSE k \in met : \A j \in met : k <= j

\* C11: for every particle the relativistic loop runs at most 10 passes and
\* is left at the first pass whose convergence test holds; the warning is
\* written exactly when none of the 10 passes met the test; and then the
\* correction is still added, from the last estimate, and the routine goes
\* on to the next particle.
C11_WarningIffNoPassConverged ==
    [][(pc = "gr" /\ i' = i + 1) =>
         LET part == particles[i + 1]
             n    == C11_FirstMet(part)
             last == C11_Pass(part, IF n = 0 THEN 10 ELSE n)
             s    == GrSolve(part, SimG, C2)
         IN  /\ s.q = (IF n = 0 THEN 10 ELSE n - 1)
             /\ s.vi = last.vi /\ s.A = last.A
             /\ stderr' = IF n = 0
                          THEN Append(stderr, "10 iterations in gr.c failed to converge")
                          ELSE stderr
             /\ particles'[i + 1].a = VecAdd(part.a, GrTerm(part, SimG, C2))
             /\ proc' = "running" /\ pc' = "gr"]_vars

\* A call on three particles ended: two of them were warned about and the
\* one between them converged; every one of them was corrected.
C11_WarnedAndCorrected ==
    /\ outcome = "done" /\ calls = 1 /\ Len(particles) = 3
    /\ jplFirst = "ok" /\ spkFirst = "ok"
    /\ stderr = <<"10 iterations in gr.c failed to converge",
                  "10 iterations in gr.c failed to converge">>
    /\ C11_FirstMet(particles0[2]) > 0
    /\ \A j \in 1..3 : particles[j].a # particles0[j].a

\* The host's last call of jpl_calc had a handle, an output and an epoch
\* inside [beg, end] of the handle.
CalcInRange ==
    /\ jc.called /\ jc.pl # NULL /\ jc.out # NULL
    /\ ~FLt(jc.jde, jc.pl.beg) /\ ~FGt(jc.jde, jc.pl.end)

\* C12: at every epoch inside [begin, end] the barycenter resolves to the
\* position (0,0,0) and the velocity (0,0,0); jpl_calc with the barycenter
\* as body and as reference returns 0 with an all-zero state; and a body
\* taken relative to the barycenter keeps its own state.
C12_BarycenterIsZero ==
    CalcInRange =>
        /\ _help(PLAN_BAR, jc.pl, RecordAt(jc.pl, jc.jde).z,
                 RecordAt(jc.pl, jc.jde).t) = [u |-> VecNul, v |-> VecNul]
        /\ (jc.n = PLAN_BAR /\ jc.m = PLAN_BAR) =>
              /\ jc.ret = 0
              /\ jc.now = [u |-> VecNul, v |-> VecNul, jde |-> jc.jde]
        /\ (jc.m = PLAN_BAR /\ ~CalcUndefined(jc.pl, jc.jde)) =>
              /\ jc.now.u = _help(jc.n, jc.pl, RecordAt(jc.pl, jc.jde).z,
                                  RecordAt(jc.pl, jc.jde).t).u
              /\ jc.now.v = _help(jc.n, jc.pl, RecordAt(jc.pl, jc.jde).z,
                                  RecordAt(jc.pl, jc.jde).t).v

\* The barycenter was asked for relative to itself at the last epoch of the
\* file, after a call that left another state in the same output; the sun
\* is not at the barycenter at that epoch.
C12_BarycenterAtEnd ==
    /\ CalcInRange /\ calls = 2
    /\ jc.n = PLAN_BAR /\ jc.m = PLAN_BAR /\ jc.jde = jc.pl.end
    /\ jc.out.u # VecNul
    /\ jc.ret = 0 /\ jc.now.u = VecNul /\ stack.u = VecNul
    /\ Slot(jc.pl, RecordAt(jc.pl, jc.jde).z, RecordAt(jc.pl, jc.jde).t,
            JPL_SUN).u # VecNul

\* The epochs of the file behind handle hd whose record lies in the file:
\* every representable epoch from beg up to, not including, end.
C13_Epochs(hd) == {Fin(k) : k \in hd.beg.v .. (hd.end.v - 1)}

\* At epoch e: the Earth-Moon barycenter and the geocentric moon as the file
\* gives them, and the earth and the moon as _ear and _lun resolve them.
C13_Parts(hd, e) ==
    Only({ [emb  |-> Slot(hd, w.z, w.t, JPL_EMB),
            lun  |-> Slot(hd, w.z, w.t, JPL_LUN),
            ear  |-> _ear(hd, w.z, w.t),
            moon |-> _lun(hd, w.z, w.t)] : w \in {RecordAt(hd, e)} })

\* moon / (1 + mu) + ear * mu / (1 + mu), by components.
C13_Recombined(ear, moon, mu) ==
    [k \in 1..3 |->
       FAdd(FMul(moon[k], FDiv(D(1), FAdd(D(1), mu))),
            FMul(ear[k], FDiv(mu, FAdd(D(1), mu))))]

\* The host's last call resolved the earth or the moon on a mapped file.
C13_Resolved ==
    /\ CalcInRange /\ jc.pl.map = "mapped" /\ ~CalcUndefined(jc.pl, jc.jde)
    /\ jc.n \in {PLAN_EAR, PLAN_LUN}

\* |a - b| <= slack / Scale, slack in units of 1 / Scale (the rounding unit).
C13_Within(a, b, slack) ==
    /\ IsFin(a) /\ IsFin(b)
    /\ Abs(a.v - b.v) * Scale <= slack

C15_Ri3(part) ==
    FMul(FMul(FSqrt(Dot(part.r, part.r)), FSqrt(Dot(part.r, part.r))),
         FSqrt(Dot(part.r, part.r)))

\* B of line 784 for particle part, with vi2 from the loop.
C15_B(part) ==
    FDiv(FDiv(FMul(FSub(FDiv(FMul(SimG, D(1)), FSqrt(Dot(part.r, part.r))),
                        FMul(Fin((3 * Scale) \div 2), GrSolve(part, SimG, C2).vi2)),
                   FMul(SimG, D(1))),
              C15_Ri3(part)), C2)

\* D of line 793 for particle part, with vi from the loop.
C15_D(part) ==
    FDiv(FSub(Dot(GrSolve(part, SimG, C2).vi,
                  [k \in 1..3 |-> FAdd(part.a[k], FMul(C15_B(part), part.r[k]))]),
              FMul(FDiv(FMul(D(3), FMul(SimG, D(1))), C15_Ri3(part)),
                   Dot(part.r, part.v))),
         C2)

\* The state of part is finite and away from the barycenter, where 1/r and
\* 1/r^3 are finite.
C15_Regular(part) ==
    /\ \A k \in 1..3 : IsFin(part.r[k]) /\ IsFin(part.v[k]) /\ IsFin(part.a[k])
    /\ C15_Ri3(part) # Zero

\* The corrector of particle part, with 1/c^2 = 0, computes A = B = D = 0,
\* adds (0,0,0) and leaves the array as it was.
C15_NothingAdded(part) ==
    /\ GrSolve(part, SimG, C2).A = Zero
    /\ C15_B(part) = Zero
    /\ C15_D(part) = Zero
    /\ GrTerm(part, SimG, C2) = VecNul
    /\ particles' = particles

\* C15 as stated: with 1/c^2 = 0, for every particle state, the scalars A,
\* B and D are zero, the correction is (0,0,0) and the acceleration after
\* the corrector is the accumulated Newtonian one.
C15_LimitForEveryState ==
    [][(pc = "gr" /\ i' = i + 1 /\ C2 = Inf(1)) =>
          C15_NothingAdded(particles[i + 1])]_vars

\* C15, amended: the same for every particle whose state is finite and which
\* is away from the barycenter.
C15_LimitAwayFromBarycenter ==
    [][(pc = "gr" /\ i' = i + 1 /\ C2 = Inf(1) /\ C15_Regular(particles[i + 1])) =>
          C15_NothingAdded(particles[i + 1])]_vars

\* A call with c infinite ended on three particles away from the barycenter:
\* each has its acceleration on entry plus the Newtonian terms, which are
\* not zero.
C15_NewtonianOnly ==
    /\ outcome = "done" /\ c = Inf(1) /\ C2 = Inf(1) /\ Len(particles) = 3
    /\ \A j \in 1..3 :
         /\ C15_Regular(particles0[j])
         /\ particles[j].a # particles0[j].a
         /\ \A k \in 1..3 : IsFin(particles[j].a[k])

\* C16: jpl_calc returns a defined state with 0 or the error -1 and nothing
\* else.  With a null handle or output, an absent mapping or an epoch below
\* begin or above end it returns -1 and leaves the output as it was; for
\* every epoch with begin <= epoch <= end on a mapped handle it returns 0
\* with the epoch stamped and the state computed from the file's
\* coefficients.
C16_DefinedOrError ==
    pc = "jpl_calc" =>
        /\ proc # "crashed"
        /\ jc.called =>
             IF \/ jc.pl = NULL \/ jc.out = NULL
                \/ jc.pl.map # "mapped"
                \/ FLt(jc.jde, jc.pl.beg) \/ FGt(jc.jde, jc.pl.end)
             THEN jc.ret = -1 /\ jc.now = jc.out
             ELSE /\ jc.ret = 0
                  /\ jc.now.jde = jc.jde
                  /\ (jc.n = PLAN_BAR /\ jc.m = PLAN_BAR) \/ ~CalcUndefined(jc.pl, jc.jde)
                  /\ jc.now = jpl_calc(jc.pl, jc.out, jc.jde, jc.n, jc.m).now

\* C19: on a file of two reserved records followed by the data records that
\* cover [begin, end], every epoch jpl_calc accepts selects a record that
\* lies wholly inside the mapping: (blk + 2) * rec + rec <= len.
C19_RecordInsideMapping ==
    (CalcInRange /\ jc.pl.map = "mapped" /\ jc.ret = 0) =>
        RecordOffset(jc.pl, jc.jde) + jc.pl.rec <= jc.pl.len

\* C17: within one call the relativistic corrections come last.  When the
\* corrector starts, every one of the N_ephem bodies and N_ast asteroids has
\* been queried and added in this call; from then on no body is queried;
\* the corrector takes the particles in order, each exactly once, changes
\* that particle alone, and adds its term to the acceleration the particle
\* had after all the Newtonian additions.
C17_CorrectorRunsLast ==
    /\ []((pc = "gr" /\ N_ast # NULL) =>
             /\ returned = calls * (2 + N_ephem.v + N_ast.v)
             /\ astQueried = 0..(N_ast.v - 1)
             /\ q.i = 0 /\ aq.i = N_ast.v - 1
             /\ i <= Len(particles)
             /\ \A j \in (i + 1)..Len(particles) :
                  particles[j].a = VecAdd(particles0[j].a, added[j]))
    /\ [][/\ (pc # "gr" /\ pc' = "gr") => (i' = 0 /\ particles' = particles)
          /\ (pc = "gr" /\ pc' = "gr") =>
                /\ i < Len(particles) /\ i' = i + 1
                /\ returned' = returned /\ q' = q /\ aq' = aq
                /\ \A j \in 1..Len(particles) :
                     j # i + 1 => particles'[j] = particles[j]
                /\ particles'[i + 1].a =
                     VecAdd(particles[i + 1].a,
                            GrTerm(particles[i + 1], SimG, C2))
          /\ (pc = "gr" /\ pc' # "gr") =>
                /\ i = Len(particles) /\ pc' = "idle"
                /\ particles' = particles /\ returned' = returned]_vars

\* The second call of the host has corrected its three particles after 11
\* bodies and 2 asteroids.
C17_AllCorrected ==
    /\ pc = "gr" /\ calls = 2 /\ i = 3 /\ Len(particles) = 3
    /\ N_ephem = IntP(11) /\ N_ast = IntP(2)
    /\ returned = 30 /\ astQueried = {0, 1}
    /\ \A j \in 1..3 : particles[j].a # particles0[j].a

\* C18: in the loop over the bodies the mass and the position used for
\* iteration i are the ones ephem assigned for body i in that iteration:
\* after each iteration the last call of ephem was for that index, it wrote
\* its outputs, and m and (x, y, z) hold what it wrote.
C18_BodyValuesAreFresh ==
    (proc = "running" /\ pc = "bodies" /\ i > 0 /\ N_ephem # NULL) =>
        /\ q.i = i - 1
        /\ q.written
        /\ m = q.m /\ u = q.u

\* C20: over any sequence of calls of ephem and ast_ephem in one process
\* spk_init is called at most once, and the two query paths hold the one
\* handle it returned.
C20_SpkOpenedOnce ==
    /\ spkInitCalls <= 1
    /\ (ast_initialized = 1) => (initialized = 1 /\ ast_spl = spl)
\* Pass k of the loop on particle part left the velocity estimate as it was
\* (vi.x == old_v.x and so for y and z, which no NaN component satisfies).
C21_Unchanged(part, k) ==
    /\ C11_Pass(part, k).vi = C11_Pass(part, k - 1).vi
    /\ \A j \in 1..3 : ~IsNaN(C11_Pass(part, k).vi[j])

\* The first of the 10 passes that left the estimate unchanged; 0 when
\* every pass changed it.
C21_FirstUnchanged(part) ==
    LET same == {k \in 1..10 : C21_Unchanged(part, k)}
    IN  IF same = {} THEN 0 ELSE CHOOSE k \in same : \A j \in same : k <= j

\* C21: when a pass of the relativistic loop leaves the velocity estimate
\* unchanged, the loop is left at that pass at the latest and no warning is
\* written for the particle; so too for a particle whose velocity is zero.
C21_UnchangedEstimateStops ==
    [][(pc = "gr" /\ i' = i + 1) =>
         LET part == particles[i + 1]
             n    == C21_FirstUnchanged(part)
         IN  n > 0 =>
               /\ GrSolve(part, SimG, C2).q <= n - 1
               /\ stderr' = stderr]_vars
====
